---- MODULE Spec2Model ----
(***************************************************************************)
(* Generation job orchestration of the content platform: the generation    *)
(* controller (createGenerationRequest, cancelGeneration), the credit      *)
(* account row they mutate, the ContentGeneration rows, the RabbitMQ       *)
(* queue 'content-generation' with its dead-letter queue, and the consume  *)
(* callback of QueueService with its retry timer.                          *)
(*                                                                         *)
(* Every `await` of a handler is a point where other requests interleave,  *)
(* so each handler is a process whose steps are the stretches of code      *)
(* between two awaits.  A Sequelize instance is a private in-memory copy   *)
(* of a row: save() writes the copy's changed fields back as absolute      *)
(* values.                                                                 *)
(*                                                                         *)
(* The module holds seven specifications over one set of variables:        *)
(*   Spec          the generation pipeline (submit, cancel, consume)       *)
(*   SpecCredits   the pipeline's account writers next to CreditService    *)
(*                 deductCredits / addCredits                              *)
(*   SpecEstimate  CreditService.estimateGenerationCost on its inputs      *)
(*   SpecQueue     QueueService: connect, reconnect, consume and retry     *)
(*   SpecRestart   one message and a handler that the application          *)
(*                 registers again after a reconnect                       *)
(*   SpecLifecycle QueueService: connect, ensureConnection and close       *)
(*   SpecRemove    QueueService.removeFromQueue next to a consumer         *)
(* Each leaves the variables of the others at their initial values.        *)
(***************************************************************************)
EXTENDS Integers, Sequences, FiniteSets, TLC

\* ---------------------------------------------------------------- bounds
\* number of createGenerationRequest calls (request r creates generation r)
MaxJobs == 2
\* number of cancelGeneration calls
MaxCancels == 2
\* number of times the consumer process may die and restart
MaxCrashes == 1
\* number of HTTP handlers (submissions and cancellations) running at once
MaxInFlight == 2

Jobs == 1..MaxJobs
Cancels == 1..MaxCancels

\* ------------------------------------------------------ program constants
\* creditsRemaining of a freshly registered user
InitialCredits == 1000
\* options.maxRetries || 3
maxRetries == 3
\* options.prefetch || 1
prefetch == 1

\* values estimateGenerationCost returns for the requests of the model
EstimatedCosts == {300, 800}
\* credits the generation capability reports as used by a finished job
ActualCredits == {250}

\* ------------------------------------------- bounds of the other specifications
\* number of deductCredits / addCredits calls
MaxServiceCalls == 2
\* number of cancelGeneration calls running next to them
MaxCreditCancels == 1
\* largest promptData.wordCount asked for
MaxWordCount == 1200
\* messages enqueued on the consumed queue
MaxMessages == 2
\* connections amqp.connect opens
MaxConnections == 2
\* connection faults
MaxFaults == 1
\* consume() calls of the application
MaxConsumeCalls == 1
\* consume() calls the application repeats after a reconnect
MaxReconsumes == 1

ServiceCalls == 1..MaxServiceCalls
Messages == 1..MaxMessages
Connections == 1..MaxConnections

\* -------------------------------------------------------- CreditService
\* promptData.wordCount || 1000
DefaultWordCount == 1000
\* Math.max(estimatedCost, 100)
MinimumCost == 100

\* the `credits` argument of deductCredits and addCredits
Amounts == {0, 700}

\* contentType: the keys of typeMultipliers, and one that is not a key
ContentTypes == {"blog", "product", "social", "email", "custom", "other"}
\* promptData.model: the keys of modelMultipliers, and one that is not a key
Models == {"gpt-4", "gpt-3.5-turbo", "default", "other"}

\* promptData: hasWordCount is FALSE when the wordCount key is missing
PromptDatas ==
  {pd \in [hasWordCount : BOOLEAN, wordCount : 0..MaxWordCount,
           model : Models, seoOptimize : BOOLEAN] :
     ~pd.hasWordCount => pd.wordCount = 0}

\* --------------------------------------------------------- QueueService
\* this.maxReconnectAttempts = 10
maxReconnectAttempts == 10
\* options.retryDelay || 5000
retryDelay == 5000

\* the options passed to consume(): 0 stands for a key left out
ConsumeOptions == [maxRetries : {0, 2}, retryDelay : {0, 20000}]

\* why a callback ended up in its catch block
ErrorKinds == {"transient", "permanent"}

VARIABLES
  creditsRemaining,  \* CreditAccount.creditsRemaining of the user (the row)
  generations,       \* ContentGeneration rows, by generation id
  contentItems,      \* ContentItem rows created for generation requests
  req,               \* createGenerationRequest calls: position and locals
  can,               \* cancelGeneration calls: position and locals
  queue,             \* ready messages of 'content-generation', head first
  dlq,               \* messages of 'content-generation.dlq'
  consumer,          \* the consume callback: its unacked delivery and position
  tempConsumers,     \* cancel calls whose removeFromQueue consumer is active
  crashes,           \* consumer process restarts so far
  touched            \* history: job j's account was written by an operation
                     \* of another job since j's submission read it

VARIABLES
  creditsUsed,       \* CreditAccount.creditsUsed of the user (the row)
  svc                \* CreditService deductCredits / addCredits calls

VARIABLES
  promptData,        \* argument of estimateGenerationCost
  contentType,       \* argument of estimateGenerationCost
  returnedCost       \* its return value, 0 before the call

creditVars == <<creditsUsed, svc>>
estimateVars == <<promptData, contentType, returnedCost>>

VARIABLES
  connected,         \* QueueService.connected
  connecting,        \* QueueService.connecting
  connection,        \* QueueService.connection: 0 (null) or a connection id
  channel,           \* QueueService.channel: 0 (null) or the id of its connection
  reconnectAttempts, \* QueueService.reconnectAttempts
  reconnectTimeout,  \* armed reconnect timers (the handle names the latest)
  emitted,           \* the event the service emitted last
  connectCall        \* the connect() call in progress: position and local

VARIABLES
  openConnections,   \* connections the broker holds open
  openChannels,      \* channels the broker holds open (one per connection)
  listening,         \* connections whose 'error' / 'close' listeners are set
  closePending,      \* faulted connections still to emit 'close'
  created,           \* connections opened so far
  faults,            \* connection faults so far
  mq,                \* ready messages of the consumed queue, head first
  mdlq,              \* messages of its dead-letter queue
  sent,              \* messages enqueued so far
  consumers,         \* consume() registrations: channel and options
  consumeCalls,      \* consume() calls so far
  nextTag            \* per channel, the delivery tag of its next delivery

VARIABLES
  callbacks,         \* consume callbacks in progress (handler or retry timer)
  invocations,       \* history: handler invocations per message id
  outcomes,          \* history: how the callback of each delivery ended
  unhandledRejection \* a callback's promise was rejected with nobody catching

VARIABLES
  ensured,           \* what the last ensureConnection() that returned at once found
  closeCall,         \* the close() call: position and the objects it closes
  removal            \* the removeFromQueue() call and its temporary consumer

serviceVars == <<connected, connecting, connection, channel, reconnectAttempts,
                 reconnectTimeout, emitted, connectCall>>
brokerVars == <<openConnections, openChannels, listening, closePending, created,
                faults, mq, mdlq, sent, consumers, consumeCalls, nextTag>>
callbackVars == <<callbacks, invocations, outcomes, unhandledRejection>>
callVars == <<ensured, closeCall, removal>>
queueVars == <<serviceVars, brokerVars, callbackVars, callVars>>

vars == <<creditsRemaining, generations, contentItems, req, can, queue, dlq,
          consumer, tempConsumers, crashes, touched, creditVars, estimateVars,
          queueVars>>

NoGeneration == [status |-> "none", estimatedCredits |-> 0, creditsUsed |-> 0,
                 error |-> "null"]

NoMessage == [id |-> 0, retryCount |-> 0, redelivered |-> FALSE]

IdleConsumer == [pc |-> "idle", msg |-> NoMessage]

\* the pipeline after a user has registered: account row, no jobs, empty queues
InitPipeline ==
  /\ creditsRemaining = InitialCredits
  /\ generations = [j \in Jobs |-> NoGeneration]
  /\ contentItems = {}
  /\ req = [r \in Jobs |-> [pc |-> "idle", bal |-> 0, cost |-> 0]]
  /\ can = [k \in Cancels |-> [pc |-> "idle", job |-> 0, est |-> 0, bal |-> 0,
                               afterAccept |-> FALSE]]
  /\ queue = <<>>
  /\ dlq = <<>>
  /\ consumer = IdleConsumer
  /\ tempConsumers = {}
  /\ crashes = 0
  /\ touched = [j \in Jobs |-> FALSE]

\* the account's creditsUsed column and no CreditService call under way
InitCredits ==
  /\ creditsUsed = 0
  /\ svc = [p \in ServiceCalls |->
             [pc |-> "idle", op |-> "none", credits |-> 0, rem |-> 0,
              used |-> 0, saves |-> 0]]

\* estimateGenerationCost not called
NoEstimate ==
  /\ promptData = [hasWordCount |-> FALSE, wordCount |-> 0,
                   model |-> "default", seoOptimize |-> FALSE]
  /\ contentType = "blog"
  /\ returnedCost = 0

\* the arguments of one estimateGenerationCost call
InitEstimate ==
  /\ promptData \in PromptDatas
  /\ contentType \in ContentTypes
  /\ returnedCost = 0

NoCall == [pc |-> "none", conn |-> 0]

NoEnsure == [resolved |-> FALSE, connected |-> FALSE, channel |-> FALSE]

NoClose == [pc |-> "none", chan |-> 0, conn |-> 0]

NoRemoval == [pc |-> "idle", target |-> 0, found |-> FALSE, timer |-> "none",
              chan |-> 0]

\* new QueueService(): nothing connected, no timer; the broker is empty
InitQueueService ==
  /\ connected = FALSE
  /\ connecting = FALSE
  /\ connection = 0
  /\ channel = 0
  /\ reconnectAttempts = 0
  /\ reconnectTimeout = 0
  /\ emitted = "none"
  /\ connectCall = NoCall
  /\ openConnections = {}
  /\ openChannels = {}
  /\ listening = {}
  /\ closePending = {}
  /\ created = 0
  /\ faults = 0
  /\ mq = <<>>
  /\ mdlq = <<>>
  /\ sent = 0
  /\ consumers = {}
  /\ consumeCalls = 0
  /\ nextTag = [c \in Connections |-> 1]
  /\ callbacks = {}
  /\ invocations = [m \in Messages |-> 0]
  /\ outcomes = {}
  /\ unhandledRejection = FALSE
  /\ ensured = NoEnsure
  /\ closeCall = NoClose
  /\ removal = NoRemoval

Init == InitPipeline /\ InitCredits /\ NoEstimate /\ InitQueueService

\* the history variable after an account write by an operation of job j
Touch(j) == [i \in Jobs |-> touched[i] \/ (i # j /\ req[i].pc # "idle")]

\* HTTP handlers that have started and not yet answered
ReqInFlight == {r \in Jobs :
  req[r].pc \in {"checked", "item", "created", "reserved"}}
CanInFlight == {k \in Cancels :
  can[k].pc \in {"found", "marked", "account", "refunded"}}
InFlight == Cardinality(ReqInFlight) + Cardinality(CanInFlight)

\* ------------------------------------------------ createGenerationRequest

\* variant: only an empty account is turned away
InsufficientCredits_OnlyEmpty(balance, estimatedCost) == balance <= 0

\* creditAccount.creditsRemaining < estimatedCost
InsufficientCredits(balance, estimatedCost) == balance < estimatedCost

\* variant: the estimate is added instead of subtracted
ReserveCredits_Adds(balance, estimatedCost) == balance + estimatedCost

\* variant: the reservation is not applied to the balance
ReserveCredits_Skipped(balance, estimatedCost) == balance

\* creditAccount.creditsRemaining -= estimatedCost
ReserveCredits(balance, estimatedCost) == balance - estimatedCost

\* CreditAccount.findOne, estimateGenerationCost and the balance check: the
\* call answers 402 right away or goes on with its copy of the account.
FindAccountAndCheck(r, estimatedCost) ==
  /\ req[r].pc = "idle"
  /\ \A q \in Jobs : q < r => req[q].pc # "idle"
  /\ InFlight < MaxInFlight
  /\ req' = [req EXCEPT ![r] =
       [pc |-> IF InsufficientCredits(creditsRemaining, estimatedCost)
                 THEN "rejected402" ELSE "checked",
        bal |-> creditsRemaining, cost |-> estimatedCost]]
  /\ UNCHANGED <<creditsRemaining, generations, contentItems, can, queue, dlq,
                 consumer, tempConsumers, crashes, touched>>

\* ContentItem.create (isNewContent)
CreateContentItem(r) ==
  /\ req[r].pc = "checked"
  /\ contentItems' = contentItems \cup {r}
  /\ req' = [req EXCEPT ![r].pc = "item"]
  /\ UNCHANGED <<creditsRemaining, generations, can, queue, dlq, consumer,
                 tempConsumers, crashes, touched>>

\* ContentGeneration.create({status: 'queued', estimatedCredits})
CreateGeneration(r) ==
  /\ req[r].pc = "item"
  /\ generations' = [generations EXCEPT ![r] =
       [status |-> "queued", estimatedCredits |-> req[r].cost,
        creditsUsed |-> 0, error |-> "null"]]
  /\ req' = [req EXCEPT ![r].pc = "created"]
  /\ UNCHANGED <<creditsRemaining, contentItems, can, queue, dlq, consumer,
                 tempConsumers, crashes, touched>>

\* creditAccount.creditsRemaining -= estimatedCost; creditAccount.save():
\* the UPDATE writes the value computed from the copy read at the start.
SaveReservation(r) ==
  /\ req[r].pc = "created"
  /\ creditsRemaining' = ReserveCredits(req[r].bal, req[r].cost)
  /\ req' = [req EXCEPT ![r].pc = "reserved"]
  /\ touched' = Touch(r)
  /\ UNCHANGED <<generations, contentItems, can, queue, dlq, consumer,
                 tempConsumers, crashes>>

\* queueService.enqueue succeeds: sendToQueue, then the 202 answer
EnqueueJob(r) ==
  /\ req[r].pc = "reserved"
  /\ queue' = Append(queue, [id |-> r, retryCount |-> 0, redelivered |-> FALSE])
  /\ req' = [req EXCEPT ![r].pc = "accepted202"]
  /\ UNCHANGED <<creditsRemaining, generations, contentItems, can, dlq,
                 consumer, tempConsumers, crashes, touched>>

\* queueService.enqueue throws (connect or sendToQueue fails): the catch
\* block logs and hands the error to next(error)
EnqueueFails(r) ==
  /\ req[r].pc = "reserved"
  /\ req' = [req EXCEPT ![r].pc = "error"]
  /\ UNCHANGED <<creditsRemaining, generations, contentItems, can, queue, dlq,
                 consumer, tempConsumers, crashes, touched>>

createGenerationRequest(r) ==
  \/ \E estimatedCost \in EstimatedCosts : FindAccountAndCheck(r, estimatedCost)
  \/ CreateContentItem(r)
  \/ CreateGeneration(r)
  \/ SaveReservation(r)
  \/ EnqueueJob(r)
  \/ EnqueueFails(r)

\* ------------------------------------------------------- cancelGeneration

\* variant: only finished jobs are refused, a processing job is cancelled
NotCancellable_OnlyFinal(status) == status \in {"completed", "failed"}

\* generation.status !== 'queued' answers 400
NotCancellable(status) == status # "queued"

\* variant: the refund adds generation.creditsUsed (0 for a queued job)
RefundCredits_Used(balance, estimatedCredits) == balance + 0

\* creditAccount.creditsRemaining += generation.estimatedCredits
RefundCredits(balance, estimatedCredits) == balance + estimatedCredits

\* ContentGeneration.findOne and the status check: 404, 400, or go on with
\* the copy of the row.  afterAccept notes whether the submission of the job
\* had been answered 202 when the cancel call looked the job up.
FindGenerationAndCheck(k, j) ==
  /\ can[k].pc = "idle"
  /\ \A q \in Cancels : q < k => can[q].pc # "idle"
  /\ InFlight < MaxInFlight
  /\ can' = [can EXCEPT ![k] =
       [pc |-> IF generations[j].status = "none" THEN "notfound404"
               ELSE IF NotCancellable(generations[j].status) THEN "rejected400"
               ELSE "found",
        job |-> j, est |-> generations[j].estimatedCredits, bal |-> 0,
        afterAccept |-> req[j].pc = "accepted202"]]
  /\ UNCHANGED <<creditsRemaining, generations, contentItems, req, queue, dlq,
                 consumer, tempConsumers, crashes, touched>>

\* variant: the cancellation records the error text and leaves the status
SaveCancelled_ErrorOnly(k) ==
  /\ can[k].pc = "found"
  /\ generations' = [generations EXCEPT
       ![can[k].job].error = "Cancelled by user"]
  /\ can' = [can EXCEPT ![k].pc = "marked"]
  /\ UNCHANGED <<creditsRemaining, contentItems, req, queue, dlq, consumer,
                 tempConsumers, crashes, touched>>

\* generation.status = 'failed'; generation.error = 'Cancelled by user';
\* generation.save() writes the two changed fields
SaveCancelled(k) ==
  /\ can[k].pc = "found"
  /\ generations' = [generations EXCEPT
       ![can[k].job].status = "failed",
       ![can[k].job].error = "Cancelled by user"]
  /\ can' = [can EXCEPT ![k].pc = "marked"]
  /\ UNCHANGED <<creditsRemaining, contentItems, req, queue, dlq, consumer,
                 tempConsumers, crashes, touched>>

\* CreditAccount.findOne for the refund
FindAccountForRefund(k) ==
  /\ can[k].pc = "marked"
  /\ can' = [can EXCEPT ![k].pc = "account", ![k].bal = creditsRemaining]
  /\ UNCHANGED <<creditsRemaining, generations, contentItems, req, queue, dlq,
                 consumer, tempConsumers, crashes, touched>>

\* creditAccount.creditsRemaining += estimatedCredits; creditAccount.save()
SaveRefund(k) ==
  /\ can[k].pc = "account"
  /\ creditsRemaining' = RefundCredits(can[k].bal, can[k].est)
  /\ can' = [can EXCEPT ![k].pc = "refunded"]
  /\ touched' = Touch(can[k].job)
  /\ UNCHANGED <<generations, contentItems, req, queue, dlq, consumer,
                 tempConsumers, crashes>>

\* queueService.removeFromQueue inside try/catch, then the 200 answer.  An
\* empty queue throws before any consumer is created; otherwise the
\* temporary consumer is started.  Whatever removeFromQueue throws is logged
\* and swallowed by cancelGeneration.
RemoveFromQueueAndAnswer(k) ==
  /\ can[k].pc = "refunded"
  /\ tempConsumers' = IF Len(queue) = 0 THEN tempConsumers
                      ELSE tempConsumers \cup {k}
  /\ can' = [can EXCEPT ![k].pc = "cancelled200"]
  /\ UNCHANGED <<creditsRemaining, generations, contentItems, req, queue, dlq,
                 consumer, crashes, touched>>

cancelGeneration(k) ==
  \/ \E j \in Jobs : FindGenerationAndCheck(k, j)
  \/ SaveCancelled(k)
  \/ FindAccountForRefund(k)
  \/ SaveRefund(k)
  \/ RemoveFromQueueAndAnswer(k)

\* ------------------------------------- QueueService.removeFromQueue consumer

\* the callback of the temporary consumer gets the head message: the target
\* is acked (removed), any other message is nacked with requeue = true and
\* returns to its place marked redelivered
TempConsumerReceives(k) ==
  /\ k \in tempConsumers
  /\ Len(queue) > 0
  /\ queue' = IF Head(queue).id = can[k].job
                THEN Tail(queue)
                ELSE [queue EXCEPT ![1].redelivered = TRUE]
  /\ UNCHANGED <<creditsRemaining, generations, contentItems, req, can, dlq,
                 consumer, tempConsumers, crashes, touched>>

\* the temporary consumer ends with the channel it was created on.  (The
\* setTimeout callback calls channel.cancel with the reply object of
\* channel.consume instead of its consumerTag; that call throws and the
\* catch block logs it.)
TempConsumerCancelled(k) ==
  /\ k \in tempConsumers
  /\ tempConsumers' = tempConsumers \ {k}
  /\ UNCHANGED <<creditsRemaining, generations, contentItems, req, can, queue,
                 dlq, consumer, crashes, touched>>

\* ------------------------------------------------ the generation worker
\* The handler passed to consume() for 'content-generation'.  Its steps
\* follow the design of the worker: claim the job (queued -> processing),
\* call the generation capability, then complete the job and settle the
\* reservation; a delivery for a job already in a final state does nothing.

\* the job is already in a final state: the handler returns at once
HandlerSkips(status) == status \in {"completed", "failed"}

\* the handler claims the job: queued (or processing, on a retry) -> processing
ClaimedGeneration(g) == [g EXCEPT !.status = "processing"]

\* settle: the reservation took estimatedCredits, the job used `used`
SettleCredits(balance, estimatedCredits, used) ==
  balance + (estimatedCredits - used)

\* the row of a job whose generation attempt failed: the error is recorded,
\* the job stays in flight
FailedAttempt(g) ==
  IF g.status = "processing" THEN [g EXCEPT !.error = "Generation failed"]
  ELSE g

\* the finished job's row
CompletedGeneration(g, used) ==
  [g EXCEPT !.status = "completed", !.creditsUsed = used]

\* ------------------------------------------------- QueueService.consume

\* messages delivered to the consume callback and not yet acked or nacked
Unacked == IF consumer.pc = "idle" THEN 0 ELSE 1

\* retryCount < (options.maxRetries || 3)
ShouldRetry(retryCount) == retryCount < maxRetries

\* the message republished for a retry: same content and messageId,
\* headers {'x-retry-count': retryCount + 1}
RetryMessage(m) ==
  [id |-> m.id, retryCount |-> m.retryCount + 1, redelivered |-> FALSE]

\* the broker delivers the head message (at most `prefetch` unacked), the
\* callback parses it and calls handler(content).  A handler that has
\* nothing to do returns and the callback acks the message.
ConsumeDelivers ==
  /\ Unacked < prefetch
  /\ Len(queue) > 0
  /\ queue' = Tail(queue)
  /\ IF HandlerSkips(generations[Head(queue).id].status)
       THEN /\ consumer' = IdleConsumer
            /\ UNCHANGED generations
       ELSE /\ consumer' = [pc |-> "generating", msg |-> Head(queue)]
            /\ generations' = [generations EXCEPT ![Head(queue).id] =
                 ClaimedGeneration(generations[Head(queue).id])]
  /\ UNCHANGED <<creditsRemaining, contentItems, req, can, dlq, tempConsumers,
                 crashes, touched>>

\* handler(content) resolves: the job is completed and settled unless it
\* left 'processing' meanwhile; then channel.ack(msg)
HandlerSucceeds(used) ==
  /\ consumer.pc = "generating"
  /\ IF generations[consumer.msg.id].status = "processing"
       THEN /\ generations' = [generations EXCEPT ![consumer.msg.id] =
                 CompletedGeneration(generations[consumer.msg.id], used)]
            /\ creditsRemaining' = SettleCredits(creditsRemaining,
                 generations[consumer.msg.id].estimatedCredits, used)
            /\ touched' = Touch(consumer.msg.id)
       ELSE UNCHANGED <<generations, creditsRemaining, touched>>
  /\ consumer' = IdleConsumer
  /\ UNCHANGED <<contentItems, req, can, queue, dlq, tempConsumers, crashes>>

\* handler(content) rejects: the catch block reads x-retry-count and either
\* arms the retry timer (the message stays unacked) or nacks the message
\* without requeue, which the broker routes to the dead-letter queue
HandlerFails ==
  /\ consumer.pc = "generating"
  /\ IF ShouldRetry(consumer.msg.retryCount)
       THEN /\ consumer' = [consumer EXCEPT !.pc = "timer"]
            /\ UNCHANGED dlq
       ELSE /\ consumer' = IdleConsumer
            /\ dlq' = Append(dlq, consumer.msg)
  /\ generations' = [generations EXCEPT ![consumer.msg.id] =
       FailedAttempt(generations[consumer.msg.id])]
  /\ UNCHANGED <<creditsRemaining, contentItems, req, can, queue,
                 tempConsumers, crashes, touched>>

\* the setTimeout callback: sendToQueue(queue, retryMessage, retryOptions),
\* then channel.ack(msg)
RetryTimerFires ==
  /\ consumer.pc = "timer"
  /\ queue' = Append(queue, RetryMessage(consumer.msg))
  /\ consumer' = IdleConsumer
  /\ UNCHANGED <<creditsRemaining, generations, contentItems, req, can, dlq,
                 tempConsumers, crashes, touched>>

\* the consumer process dies and restarts: its timers are gone, the broker
\* requeues the unacked delivery at its place, marked redelivered
ConsumerCrashes ==
  /\ crashes < MaxCrashes
  /\ consumer.pc # "idle"
  /\ queue' = <<[consumer.msg EXCEPT !.redelivered = TRUE]>> \o queue
  /\ consumer' = IdleConsumer
  /\ crashes' = crashes + 1
  /\ UNCHANGED <<creditsRemaining, generations, contentItems, req, can, dlq,
                 tempConsumers, touched>>

\* the variables the pipeline's actions leave alone
aside == <<creditVars, estimateVars, queueVars>>

Next ==
  \/ (\E r \in Jobs : createGenerationRequest(r)) /\ UNCHANGED aside
  \/ (\E k \in Cancels : cancelGeneration(k)) /\ UNCHANGED aside
  \/ (\E k \in Cancels : TempConsumerReceives(k)) /\ UNCHANGED aside
  \/ (\E k \in Cancels : TempConsumerCancelled(k)) /\ UNCHANGED aside
  \/ ConsumeDelivers /\ UNCHANGED aside
  \/ (\E used \in ActualCredits : HandlerSucceeds(used)) /\ UNCHANGED aside
  \/ HandlerFails /\ UNCHANGED aside
  \/ RetryTimerFires /\ UNCHANGED aside
  \/ ConsumerCrashes /\ UNCHANGED aside

Spec == Init /\ [][Next]_vars

\* ---------------------------- CreditService.deductCredits and addCredits
\* Each call loads its own copy of the account row (getCreditAccount), works
\* on the copy and saves it; other handlers run between the load and the
\* save.

\* the history variable after an account write that belongs to no job
TouchAll == [i \in Jobs |-> touched[i] \/ req[i].pc # "idle"]

\* instance.save(): only a field whose value was changed is written
Saved(current, loaded, assigned) ==
  IF assigned = loaded THEN current ELSE assigned

\* variant: the check lets every amount through
NotEnoughCredits_Never(remaining, credits) == FALSE

\* creditAccount.creditsRemaining < credits
NotEnoughCredits(remaining, credits) == remaining < credits

\* variant: the amount is taken off twice
DeductedRemaining_Twice(remaining, credits) == remaining - 2 * credits

\* creditAccount.creditsRemaining -= credits
DeductedRemaining(remaining, credits) == remaining - credits

\* creditAccount.creditsUsed += credits
DeductedUsed(used, credits) == used + credits

\* creditAccount.creditsRemaining += credits
AddedRemaining(remaining, credits) == remaining + credits

ServiceCallsInFlight ==
  Cardinality({p \in ServiceCalls : svc[p].pc = "loaded"})

\* getCreditAccount resolves; deductCredits throws 'Insufficient credits' or
\* changes its copy and calls save()
DeductLoadsAccount(p, credits) ==
  /\ svc[p].pc = "idle"
  /\ \A q \in ServiceCalls : q < p => svc[q].pc # "idle"
  /\ InFlight + ServiceCallsInFlight < MaxInFlight
  /\ svc' = [svc EXCEPT ![p] =
       [pc |-> IF NotEnoughCredits(creditsRemaining, credits)
                 THEN "insufficient" ELSE "loaded",
        op |-> "deductCredits", credits |-> credits,
        rem |-> creditsRemaining, used |-> creditsUsed, saves |-> 0]]
  /\ UNCHANGED <<creditsRemaining, creditsUsed, touched>>

\* the save() of deductCredits lands and the call returns, its copy of the
\* row is dropped
DeductSaves(p) ==
  /\ svc[p].pc = "loaded"
  /\ svc[p].op = "deductCredits"
  /\ creditsRemaining' = Saved(creditsRemaining, svc[p].rem,
       DeductedRemaining(svc[p].rem, svc[p].credits))
  /\ creditsUsed' = Saved(creditsUsed, svc[p].used,
       DeductedUsed(svc[p].used, svc[p].credits))
  /\ svc' = [svc EXCEPT ![p].pc = "done", ![p].saves = @ + 1,
                         ![p].rem = 0, ![p].used = 0]
  /\ touched' = TouchAll

deductCredits(p) ==
  \/ \E credits \in Amounts : DeductLoadsAccount(p, credits)
  \/ DeductSaves(p)

\* getCreditAccount resolves; addCredits changes its copy and calls save()
AddLoadsAccount(p, credits) ==
  /\ svc[p].pc = "idle"
  /\ \A q \in ServiceCalls : q < p => svc[q].pc # "idle"
  /\ InFlight + ServiceCallsInFlight < MaxInFlight
  /\ svc' = [svc EXCEPT ![p] =
       [pc |-> "loaded", op |-> "addCredits", credits |-> credits,
        rem |-> creditsRemaining, used |-> creditsUsed, saves |-> 0]]
  /\ UNCHANGED <<creditsRemaining, creditsUsed, touched>>

\* the save() of addCredits lands
AddSaves(p) ==
  /\ svc[p].pc = "loaded"
  /\ svc[p].op = "addCredits"
  /\ creditsRemaining' = Saved(creditsRemaining, svc[p].rem,
       AddedRemaining(svc[p].rem, svc[p].credits))
  /\ svc' = [svc EXCEPT ![p].pc = "done", ![p].saves = @ + 1,
                         ![p].rem = 0, ![p].used = 0]
  /\ touched' = TouchAll
  /\ UNCHANGED creditsUsed

addCredits(p) ==
  \/ \E credits \in Amounts : AddLoadsAccount(p, credits)
  \/ AddSaves(p)

\* what a CreditService call leaves alone
besideAccount == <<generations, contentItems, req, can, queue, dlq, consumer,
                   tempConsumers, crashes, estimateVars, queueVars>>

NextCredits ==
  \/ (\E r \in Jobs : createGenerationRequest(r)) /\ UNCHANGED aside
  \/ (\E k \in 1..MaxCreditCancels : cancelGeneration(k))
       /\ UNCHANGED aside
  \/ (\E p \in ServiceCalls : deductCredits(p)) /\ UNCHANGED besideAccount
  \/ (\E p \in ServiceCalls : addCredits(p)) /\ UNCHANGED besideAccount

SpecCredits == Init /\ [][NextCredits]_vars

\* ------------------------------------ CreditService.estimateGenerationCost
\* The multipliers are decimal fractions with one digit: they are kept in
\* tenths, and the product of word count and three multipliers is in
\* thousandths.  Math.ceil of the double product is the ceiling of the exact
\* product for every input of the model.

\* variant: the word count is taken as given, without the default
RequestedWordCount_Raw(pd) == pd.wordCount

\* promptData.wordCount || 1000: a missing key and the number 0 are both falsy
RequestedWordCount(pd) ==
  IF pd.hasWordCount /\ pd.wordCount # 0 THEN pd.wordCount ELSE DefaultWordCount

\* typeMultipliers[contentType] || 1, in tenths
TypeMultiplier(ct) ==
  CASE ct = "blog" -> 10
    [] ct = "product" -> 8
    [] ct = "social" -> 5
    [] ct = "email" -> 7
    [] ct = "custom" -> 12
    [] OTHER -> 10

\* modelMultipliers[promptData.model] || modelMultipliers.default, in tenths
ModelMultiplier(model) ==
  CASE model = "gpt-4" -> 15
    [] model = "gpt-3.5-turbo" -> 10
    [] OTHER -> 10

\* promptData.seoOptimize ? 1.2 : 1, in tenths
SeoMultiplier(seoOptimize) == IF seoOptimize THEN 12 ELSE 10

\* Math.ceil of a non-negative number given in thousandths
CeilThousandths(x) == (x + 999) \div 1000

\* Math.max(a, b)
MathMax(a, b) == IF a >= b THEN a ELSE b

estimateGenerationCost(pd, ct) ==
  MathMax(CeilThousandths(RequestedWordCount(pd) * TypeMultiplier(ct)
                          * ModelMultiplier(pd.model)
                          * SeoMultiplier(pd.seoOptimize)),
          MinimumCost)

\* the call returns
Estimate ==
  /\ returnedCost = 0
  /\ returnedCost' = estimateGenerationCost(promptData, contentType)
  /\ UNCHANGED <<promptData, contentType>>
  /\ UNCHANGED <<creditsRemaining, generations, contentItems, req, can, queue,
                 dlq, consumer, tempConsumers, crashes, touched, creditVars,
                 queueVars>>

NextEstimate == Estimate

InitWithEstimate ==
  InitPipeline /\ InitCredits /\ InitEstimate /\ InitQueueService

SpecEstimate == InitWithEstimate /\ [][NextEstimate]_vars

\* ------------------------------------------------------- QueueService
\* The service object, the broker behind it and the consume callbacks.  A
\* connection and the one channel opened on it share an id.  The handler
\* passed to consume() is any function: it resolves or it rejects.

\* Math.pow(2, n)
RECURSIVE Pow2(_)
Pow2(n) == IF n = 0 THEN 1 ELSE 2 * Pow2(n - 1)

\* options.maxRetries || 3
RetryLimit(options) ==
  IF options.maxRetries = 0 THEN maxRetries ELSE options.maxRetries

\* variant: one more retry than the limit
RetryAllowed_Inclusive(retryCount, options) == retryCount <= RetryLimit(options)

\* retryCount < (options.maxRetries || 3)
RetryAllowed(retryCount, options) == retryCount < RetryLimit(options)

\* options.retryDelay || 5000
RetryBase(options) ==
  IF options.retryDelay = 0 THEN retryDelay ELSE options.retryDelay

\* variant: the delay grows by the base each time
RetryDelay_Linear(retryCount, options) == RetryBase(options) * (retryCount + 1)

\* (options.retryDelay || 5000) * Math.pow(2, retryCount)
RetryDelay(retryCount, options) == RetryBase(options) * Pow2(retryCount)

\* variant: a further attempt is scheduled at the limit
MayReconnect_Inclusive(attempts) == attempts <= maxReconnectAttempts

\* this.reconnectAttempts < this.maxReconnectAttempts
MayReconnect(attempts) == attempts < maxReconnectAttempts

\* clearTimeout(this.reconnectTimeout): the latest timer, if still armed
ClearTimeout(timers) == IF timers > 0 THEN timers - 1 ELSE 0

\* handleConnectionError()
handleConnectionError ==
  /\ connected' = FALSE
  /\ channel' = 0
  /\ connection' = 0
  /\ IF MayReconnect(reconnectAttempts)
       THEN /\ reconnectAttempts' = reconnectAttempts + 1
            /\ reconnectTimeout' = ClearTimeout(reconnectTimeout) + 1
            /\ UNCHANGED emitted
       ELSE /\ reconnectTimeout' = ClearTimeout(reconnectTimeout)
            /\ emitted' = "reconnect_failed"
            /\ UNCHANGED reconnectAttempts

\* connect() past its guard: connecting = true, amqp.connect under way
ConnectBegins ==
  /\ connecting' = TRUE
  /\ connectCall' = [pc |-> "amqp.connect", conn |-> 0]

\* ensureConnection() of enqueue, consume, cancelConsumer or removeFromQueue
\* finds the service not connected and calls connect()
ensureConnection ==
  /\ ~connected
  /\ ~connecting
  /\ ConnectBegins
  /\ UNCHANGED <<connected, connection, channel, reconnectAttempts,
                 reconnectTimeout, emitted>>
  /\ UNCHANGED <<brokerVars, callbackVars>>

\* the reconnect timer fires and calls connect(), which returns at once
\* when the service is connected or connecting
ReconnectTimerFires ==
  /\ reconnectTimeout > 0
  /\ reconnectTimeout' = reconnectTimeout - 1
  /\ IF connected \/ connecting
       THEN UNCHANGED <<connecting, connectCall>>
       ELSE ConnectBegins
  /\ UNCHANGED <<connected, connection, channel, reconnectAttempts, emitted>>
  /\ UNCHANGED <<brokerVars, callbackVars>>

\* this.connection = await amqp.connect(config.url)
AmqpConnectResolves ==
  /\ connectCall.pc = "amqp.connect"
  /\ created < MaxConnections
  /\ created' = created + 1
  /\ openConnections' = openConnections \cup {created + 1}
  /\ connection' = created + 1
  /\ connectCall' = [pc |-> "createChannel", conn |-> created + 1]
  /\ UNCHANGED <<connected, connecting, channel, reconnectAttempts,
                 reconnectTimeout, emitted>>
  /\ UNCHANGED <<openChannels, listening, closePending, faults, mq, mdlq, sent,
                 consumers, consumeCalls, nextTag>>
  /\ UNCHANGED callbackVars

\* this.channel = await this.connection.createChannel(), then the 'error'
\* and 'close' listeners are set on this.connection; if this.connection
\* was set to null meanwhile that throws and the catch block runs
CreateChannelResolves ==
  /\ connectCall.pc = "createChannel"
  /\ connectCall.conn \in openConnections
  /\ openChannels' = openChannels \cup {connectCall.conn}
  /\ IF connection = 0
       THEN /\ connecting' = FALSE
            /\ handleConnectionError
            /\ connectCall' = NoCall
            /\ UNCHANGED listening
       ELSE /\ channel' = connectCall.conn
            /\ listening' = listening \cup {connectCall.conn}
            /\ connectCall' = [connectCall EXCEPT !.pc = "setupQueues"]
            /\ UNCHANGED <<connected, connecting, connection, reconnectAttempts,
                           reconnectTimeout, emitted>>
  /\ UNCHANGED <<openConnections, closePending, created, faults, mq, mdlq, sent,
                 consumers, consumeCalls, nextTag>>
  /\ UNCHANGED callbackVars

\* await this.setupQueues() resolves: connected = true, connecting = false,
\* reconnectAttempts = 0, emit('connected')
SetupQueuesResolves ==
  /\ connectCall.pc = "setupQueues"
  /\ connectCall.conn \in openChannels
  /\ connected' = TRUE
  /\ connecting' = FALSE
  /\ reconnectAttempts' = 0
  /\ emitted' = "connected"
  /\ connectCall' = NoCall
  /\ UNCHANGED <<connection, channel, reconnectTimeout>>
  /\ UNCHANGED <<brokerVars, callbackVars>>

\* an await of connect() rejects: connecting = false,
\* handleConnectionError(), the error is rethrown to the caller
ConnectFails ==
  /\ connectCall.pc # "none"
  /\ connecting' = FALSE
  /\ handleConnectionError
  /\ connectCall' = NoCall
  /\ UNCHANGED <<brokerVars, callbackVars>>

\* deliveries of channel c the broker still waits an ack for
UnackedOn(cbs, c) == {x \in cbs : x.chan = c /\ x.unacked}

\* the messages of deliveries the broker puts back, oldest first
RECURSIVE Requeued(_)
Requeued(S) ==
  IF S = {} THEN <<>>
  ELSE LET x == CHOOSE y \in S : \A z \in S : y.tag <= z.tag
       IN <<[x.msg EXCEPT !.redelivered = TRUE]>> \o Requeued(S \ {x})

\* the callbacks once channel c is gone: none of its deliveries is unacked
ChannelGone(cbs, c) ==
  {[x EXCEPT !.unacked = x.unacked /\ x.chan # c] : x \in cbs}

\* connection c breaks: the broker drops it with its channel and consumers
\* and requeues its unacked deliveries; the connection object emits 'error'
\* (when withClose) or 'close', whose listener runs handleConnectionError()
ConnectionFault(c, withClose) ==
  /\ faults < MaxFaults
  /\ c \in openConnections
  /\ c \in listening
  /\ faults' = faults + 1
  /\ openConnections' = openConnections \ {c}
  /\ openChannels' = openChannels \ {c}
  /\ consumers' = {k \in consumers : k.chan # c}
  /\ mq' = Requeued(UnackedOn(callbacks, c)) \o mq
  /\ callbacks' = ChannelGone(callbacks, c)
  /\ closePending' = IF withClose THEN closePending \cup {c} ELSE closePending
  /\ handleConnectionError
  /\ UNCHANGED <<connecting, connectCall>>
  /\ UNCHANGED <<listening, created, mdlq, sent, consumeCalls, nextTag>>
  /\ UNCHANGED <<invocations, outcomes, unhandledRejection>>

\* the 'close' event that follows the 'error' event of a broken connection
ConnectionCloseEvent(c) ==
  /\ c \in closePending
  /\ closePending' = closePending \ {c}
  /\ handleConnectionError
  /\ UNCHANGED <<connecting, connectCall>>
  /\ UNCHANGED <<openConnections, openChannels, listening, created, faults, mq,
                 mdlq, sent, consumers, consumeCalls, nextTag>>
  /\ UNCHANGED callbackVars

\* enqueue(queue, message) on a connected service: channel.sendToQueue
enqueue(m) ==
  /\ m = sent + 1
  /\ connected
  /\ channel \in openChannels
  /\ mq' = Append(mq, [id |-> m, retryCount |-> 0, redelivered |-> FALSE])
  /\ sent' = m
  /\ UNCHANGED <<openConnections, openChannels, listening, closePending,
                 created, faults, mdlq, consumers, consumeCalls, nextTag>>
  /\ UNCHANGED <<serviceVars, callbackVars>>

\* consume(queue, handler, options) on a connected service: prefetch, then
\* channel.consume registers the callback
consume(options) ==
  /\ consumeCalls < MaxConsumeCalls
  /\ connected
  /\ channel \in openChannels
  /\ \A k \in consumers : k.chan # channel
  /\ consumers' = consumers \cup {[chan |-> channel, options |-> options]}
  /\ consumeCalls' = consumeCalls + 1
  /\ UNCHANGED <<openConnections, openChannels, listening, closePending,
                 created, faults, mq, mdlq, sent, nextTag>>
  /\ UNCHANGED <<serviceVars, callbackVars>>

\* the broker hands the head message to consumer k, which has fewer than
\* `prefetch` unacked deliveries; the callback calls handler(content)
Deliver(k) ==
  /\ k \in consumers
  /\ k.chan \in openChannels
  /\ Cardinality(UnackedOn(callbacks, k.chan)) < prefetch
  /\ mq # <<>>
  /\ mq' = Tail(mq)
  /\ callbacks' = callbacks \cup
       {[chan |-> k.chan, tag |-> nextTag[k.chan], msg |-> Head(mq),
         options |-> k.options, pc |-> "handler", unacked |-> TRUE,
         error |-> "none", delay |-> 0]}
  /\ nextTag' = [nextTag EXCEPT ![k.chan] = @ + 1]
  /\ invocations' = [invocations EXCEPT ![Head(mq).id] = @ + 1]
  /\ UNCHANGED <<openConnections, openChannels, listening, closePending,
                 created, faults, mdlq, sent, consumers, consumeCalls>>
  /\ UNCHANGED <<serviceVars, outcomes, unhandledRejection>>

\* the delivery this.channel.ack(msg) / nack(msg) of callback cb refers to:
\* the unacked delivery of the current channel that carries msg's tag
Hit(cb) ==
  {x \in callbacks : x.chan = channel /\ x.tag = cb.tag /\ x.unacked}

\* callback cb is over after this.channel.ack(msg) (how = "ack") or
\* this.channel.nack(msg, false, false) (how = "nack") on an open channel,
\* the queue being q before.  The broker settles the delivery with that tag
\* on that channel: acked, or dead-lettered.  A tag the channel does not
\* know is a protocol error: the broker closes the channel and requeues
\* what was unacked on it.
Settles(cb, q, how) ==
  IF Hit(cb) # {}
    THEN /\ callbacks' = {[x EXCEPT !.unacked = x.unacked /\ x \notin Hit(cb)] :
                            x \in callbacks \ {cb}}
         /\ mq' = q
         /\ mdlq' = IF how = "nack"
                      THEN Append(mdlq, (CHOOSE x \in Hit(cb) : TRUE).msg)
                      ELSE mdlq
         /\ UNCHANGED <<openChannels, consumers>>
    ELSE /\ callbacks' = ChannelGone(callbacks \ {cb}, channel)
         /\ mq' = Requeued(UnackedOn(callbacks \ {cb}, channel)) \o q
         /\ openChannels' = openChannels \ {channel}
         /\ consumers' = {k \in consumers : k.chan # channel}
         /\ UNCHANGED mdlq

\* the delivery of cb is still unacked on the channel the service holds
OwnDelivery(cb) == cb.unacked /\ cb.chan = channel

\* history record of a finished callback: the delivery it was for, the
\* retry limit it worked with, and how it ended
Outcome(cb, result) ==
  [id |-> cb.msg.id, retryCount |-> cb.msg.retryCount,
   limit |-> RetryLimit(cb.options), result |-> result]

\* the catch block of the callback, entered for the reason `kind`: arm the
\* retry timer, or nack without requeue; this.channel.nack throws when the
\* channel is null or closed, and nothing catches that
Catches(cb, kind) ==
  IF RetryAllowed(cb.msg.retryCount, cb.options)
    THEN /\ callbacks' = (callbacks \ {cb}) \cup
              {[cb EXCEPT !.pc = "timer", !.error = kind,
                          !.delay = RetryDelay(cb.msg.retryCount, cb.options)]}
         /\ UNCHANGED <<mq, mdlq, openChannels, consumers, outcomes,
                        unhandledRejection>>
    ELSE IF channel \in openChannels
      THEN /\ Settles(cb, mq, "nack")
           /\ outcomes' = outcomes \cup
                {Outcome(cb, IF OwnDelivery(cb) THEN "deadLettered"
                             ELSE "abandoned")}
           /\ UNCHANGED unhandledRejection
      ELSE /\ callbacks' = callbacks \ {cb}
           /\ unhandledRejection' = TRUE
           /\ outcomes' = outcomes \cup {Outcome(cb, "abandoned")}
           /\ UNCHANGED <<mq, mdlq, openChannels, consumers>>

\* handler(content) resolves and the callback calls this.channel.ack(msg);
\* when the channel is null or closed that throws inside the try block
HandlerResolves(cb) ==
  /\ cb \in callbacks
  /\ cb.pc = "handler"
  /\ IF channel \in openChannels
       THEN /\ Settles(cb, mq, "ack")
            /\ outcomes' = outcomes \cup {Outcome(cb, "acked")}
            /\ UNCHANGED unhandledRejection
       ELSE Catches(cb, "ack")
  /\ UNCHANGED <<openConnections, listening, closePending, created, faults,
                 sent, consumeCalls, nextTag>>
  /\ UNCHANGED <<serviceVars, invocations>>

\* handler(content) rejects with an error of the given kind
HandlerRejects(cb, kind) ==
  /\ cb \in callbacks
  /\ cb.pc = "handler"
  /\ Catches(cb, kind)
  /\ UNCHANGED <<openConnections, listening, closePending, created, faults,
                 sent, consumeCalls, nextTag>>
  /\ UNCHANGED <<serviceVars, invocations>>

\* the setTimeout callback: sendToQueue(queue, retryMessage, retryOptions)
\* and ack(msg); when the channel is null or closed sendToQueue throws, and
\* so does the nack in the catch block, which nothing catches
RetryTimerRuns(cb) ==
  /\ cb \in callbacks
  /\ cb.pc = "timer"
  /\ IF channel \in openChannels
       THEN /\ Settles(cb, Append(mq, RetryMessage(cb.msg)), "ack")
            /\ outcomes' = outcomes \cup {Outcome(cb, "retried")}
            /\ UNCHANGED unhandledRejection
       ELSE /\ callbacks' = callbacks \ {cb}
            /\ unhandledRejection' = TRUE
            /\ outcomes' = outcomes \cup {Outcome(cb, "abandoned")}
            /\ UNCHANGED <<mq, mdlq, openChannels, consumers>>
  /\ UNCHANGED <<openConnections, listening, closePending, created, faults,
                 sent, consumeCalls, nextTag>>
  /\ UNCHANGED <<serviceVars, invocations>>

\* the variables of the pipeline, the credit service and the estimate
outsideService == <<creditsRemaining, generations, contentItems, req, can,
                    queue, dlq, consumer, tempConsumers, crashes, touched,
                    creditVars, estimateVars>>

\* the variables the connect and consume actions leave alone
outside == <<outsideService, callVars>>

NextQueue ==
  \/ ensureConnection /\ UNCHANGED outside
  \/ ReconnectTimerFires /\ UNCHANGED outside
  \/ AmqpConnectResolves /\ UNCHANGED outside
  \/ CreateChannelResolves /\ UNCHANGED outside
  \/ SetupQueuesResolves /\ UNCHANGED outside
  \/ ConnectFails /\ UNCHANGED outside
  \/ (\E c \in Connections, withClose \in BOOLEAN : ConnectionFault(c, withClose))
       /\ UNCHANGED outside
  \/ (\E c \in Connections : ConnectionCloseEvent(c)) /\ UNCHANGED outside
  \/ (\E m \in Messages : enqueue(m)) /\ UNCHANGED outside
  \/ (\E options \in ConsumeOptions : consume(options)) /\ UNCHANGED outside
  \/ (\E k \in consumers : Deliver(k)) /\ UNCHANGED outside
  \/ (\E cb \in callbacks : HandlerResolves(cb)) /\ UNCHANGED outside
  \/ (\E cb \in callbacks, kind \in ErrorKinds : HandlerRejects(cb, kind))
       /\ UNCHANGED outside
  \/ (\E cb \in callbacks : RetryTimerRuns(cb)) /\ UNCHANGED outside

SpecQueue == Init /\ [][NextQueue]_vars

\* ------------------------------------------- consuming again after a loss
\* The service registers no consumer of its own when it reconnects.  An
\* application that wants its handler back calls consume() again once the
\* service is connected again; the broker then redelivers what it requeued.

\* consume() called without options
DefaultOptions == [maxRetries |-> 0, retryDelay |-> 0]

\* consume(queue, handler, options) called again after a connection loss
Reconsume(options) ==
  /\ consumeCalls >= MaxConsumeCalls
  /\ consumeCalls < MaxConsumeCalls + MaxReconsumes
  /\ faults > 0
  /\ connected
  /\ channel \in openChannels
  /\ \A k \in consumers : k.chan # channel
  /\ consumers' = consumers \cup {[chan |-> channel, options |-> options]}
  /\ consumeCalls' = consumeCalls + 1
  /\ UNCHANGED <<openConnections, openChannels, listening, closePending,
                 created, faults, mq, mdlq, sent, nextTag>>
  /\ UNCHANGED <<serviceVars, callbackVars>>

\* one message, one handler registered without options and registered
\* again after a reconnect
NextRestart ==
  \/ ensureConnection /\ UNCHANGED outside
  \/ ReconnectTimerFires /\ UNCHANGED outside
  \/ AmqpConnectResolves /\ UNCHANGED outside
  \/ CreateChannelResolves /\ UNCHANGED outside
  \/ SetupQueuesResolves /\ UNCHANGED outside
  \/ ConnectFails /\ UNCHANGED outside
  \/ (\E c \in Connections, withClose \in BOOLEAN : ConnectionFault(c, withClose))
       /\ UNCHANGED outside
  \/ (\E c \in Connections : ConnectionCloseEvent(c)) /\ UNCHANGED outside
  \/ enqueue(1) /\ UNCHANGED outside
  \/ consume(DefaultOptions) /\ UNCHANGED outside
  \/ Reconsume(DefaultOptions) /\ UNCHANGED outside
  \/ (\E k \in consumers : Deliver(k)) /\ UNCHANGED outside
  \/ (\E cb \in callbacks : HandlerResolves(cb)) /\ UNCHANGED outside
  \/ (\E cb \in callbacks : HandlerRejects(cb, "transient")) /\ UNCHANGED outside
  \/ (\E cb \in callbacks : RetryTimerRuns(cb)) /\ UNCHANGED outside

SpecRestart == Init /\ [][NextRestart]_vars

\* ------------------------------- QueueService: ensureConnection and close
\* Calls of the application on the service object while connects, faults
\* and reconnect timers go on.

\* ensureConnection() returns without a connect of its own: the service is
\* connected, or connect() finds `connecting` set and returns at once
EnsureConnectionReturns ==
  /\ connected \/ connecting
  /\ ensured' = [resolved |-> TRUE, connected |-> connected,
                 channel |-> channel # 0]
  /\ UNCHANGED <<closeCall, removal>>
  /\ UNCHANGED <<serviceVars, brokerVars, callbackVars>>

\* the close() record once the application calls connect() again
AfterConnectCalled(cc) == IF cc.pc \in {"closed", "threw"} THEN NoClose ELSE cc

\* the application calls connect() (through ensureConnection) on a service
\* that is neither connected nor connecting
ConnectCalled ==
  /\ ensureConnection
  /\ closeCall' = AfterConnectCalled(closeCall)
  /\ UNCHANGED <<ensured, removal>>

\* the last three statements of close()
CloseFinishes ==
  /\ connected' = FALSE
  /\ channel' = 0
  /\ connection' = 0

\* close() called: await this.channel.close() when a channel is set, else
\* await this.connection.close() when a connection is set, else the fields
\* are reset right away
CloseBegins ==
  /\ closeCall.pc = "none"
  /\ IF channel # 0
       THEN /\ closeCall' = [pc |-> "channel.close", chan |-> channel, conn |-> 0]
            /\ UNCHANGED <<connected, channel, connection>>
       ELSE IF connection # 0
         THEN /\ closeCall' = [pc |-> "connection.close", chan |-> 0,
                               conn |-> connection]
              /\ UNCHANGED <<connected, channel, connection>>
         ELSE /\ closeCall' = [pc |-> "closed", chan |-> 0, conn |-> 0]
              /\ CloseFinishes
  /\ UNCHANGED <<connecting, reconnectAttempts, reconnectTimeout, emitted,
                 connectCall>>
  /\ UNCHANGED <<ensured, removal>>
  /\ UNCHANGED <<brokerVars, callbackVars>>

\* await this.channel.close() is over: the broker has closed the channel
\* (its consumers end, its unacked deliveries are requeued) and close()
\* goes on with the connection, or the channel was closed already and
\* close() throws
ChannelCloseResolves ==
  /\ closeCall.pc = "channel.close"
  /\ IF closeCall.chan \in openChannels
       THEN /\ openChannels' = openChannels \ {closeCall.chan}
            /\ consumers' = {k \in consumers : k.chan # closeCall.chan}
            /\ mq' = Requeued(UnackedOn(callbacks, closeCall.chan)) \o mq
            /\ callbacks' = ChannelGone(callbacks, closeCall.chan)
            /\ IF connection # 0
                 THEN /\ closeCall' = [pc |-> "connection.close", chan |-> 0,
                                       conn |-> connection]
                      /\ UNCHANGED <<connected, channel, connection>>
                 ELSE /\ closeCall' = [pc |-> "closed", chan |-> 0, conn |-> 0]
                      /\ CloseFinishes
       ELSE /\ closeCall' = [pc |-> "threw", chan |-> 0, conn |-> 0]
            /\ UNCHANGED <<openChannels, consumers, mq, callbacks>>
            /\ UNCHANGED <<connected, channel, connection>>
  /\ UNCHANGED <<connecting, reconnectAttempts, reconnectTimeout, emitted,
                 connectCall>>
  /\ UNCHANGED <<openConnections, listening, closePending, created, faults,
                 mdlq, sent, consumeCalls, nextTag>>
  /\ UNCHANGED <<invocations, outcomes, unhandledRejection>>
  /\ UNCHANGED <<ensured, removal>>

\* await this.connection.close() is over: the connection is closed and
\* emits 'close', whose listener runs handleConnectionError(); then close()
\* resets the fields and returns.  A connection that was broken already
\* makes close() throw.
ConnectionCloseResolves ==
  /\ closeCall.pc = "connection.close"
  /\ IF closeCall.conn \in openConnections
       THEN /\ openConnections' = openConnections \ {closeCall.conn}
            /\ openChannels' = openChannels \ {closeCall.conn}
            /\ consumers' = {k \in consumers : k.chan # closeCall.conn}
            /\ mq' = Requeued(UnackedOn(callbacks, closeCall.conn)) \o mq
            /\ callbacks' = ChannelGone(callbacks, closeCall.conn)
            /\ closeCall' = [pc |-> "closed", chan |-> 0, conn |-> 0]
            /\ IF closeCall.conn \in listening
                 THEN handleConnectionError
                 ELSE /\ CloseFinishes
                      /\ UNCHANGED <<reconnectAttempts, reconnectTimeout,
                                     emitted>>
       ELSE /\ closeCall' = [pc |-> "threw", chan |-> 0, conn |-> 0]
            /\ UNCHANGED <<openConnections, openChannels, consumers, mq,
                           callbacks>>
            /\ UNCHANGED <<connected, channel, connection, reconnectAttempts,
                           reconnectTimeout, emitted>>
  /\ UNCHANGED <<connecting, connectCall>>
  /\ UNCHANGED <<listening, closePending, created, faults, mdlq, sent,
                 consumeCalls, nextTag>>
  /\ UNCHANGED <<invocations, outcomes, unhandledRejection>>
  /\ UNCHANGED <<ensured, removal>>

NextLifecycle ==
  \/ ConnectCalled /\ UNCHANGED outsideService
  \/ EnsureConnectionReturns /\ UNCHANGED outsideService
  \/ ReconnectTimerFires /\ UNCHANGED outside
  \/ AmqpConnectResolves /\ UNCHANGED outside
  \/ CreateChannelResolves /\ UNCHANGED outside
  \/ SetupQueuesResolves /\ UNCHANGED outside
  \/ ConnectFails /\ UNCHANGED outside
  \/ (\E c \in Connections, withClose \in BOOLEAN : ConnectionFault(c, withClose))
       /\ UNCHANGED outside
  \/ (\E c \in Connections : ConnectionCloseEvent(c)) /\ UNCHANGED outside
  \/ CloseBegins /\ UNCHANGED outsideService
  \/ ChannelCloseResolves /\ UNCHANGED outsideService
  \/ ConnectionCloseResolves /\ UNCHANGED outsideService

SpecLifecycle == Init /\ [][NextLifecycle]_vars

\* ----------------------------------------- QueueService.removeFromQueue
\* One removeFromQueue(queue, messageId) call on a connected service, next
\* to the regular consumer of the queue.

\* assertQueue reports the ready messages: none makes the call throw 'is
\* empty'; otherwise channel.consume registers the temporary consumer
RemoveFromQueueConsumes(messageId) ==
  /\ removal.pc = "idle"
  /\ connected
  /\ channel \in openChannels
  /\ removal' = IF Len(mq) = 0
                  THEN [removal EXCEPT !.pc = "threwEmpty",
                                       !.target = messageId]
                  ELSE [pc |-> "consuming", target |-> messageId,
                        found |-> FALSE, timer |-> "none", chan |-> channel]
  /\ UNCHANGED <<ensured, closeCall>>
  /\ UNCHANGED <<serviceVars, brokerVars, callbackVars>>

\* the callback of the temporary consumer gets the head message: the
\* target is acked and found = true, any other message is nacked with
\* requeue = true and is back at its place, marked redelivered
TempConsumerGets ==
  /\ removal.chan # 0
  /\ removal.chan \in openChannels
  /\ channel = removal.chan
  /\ mq # <<>>
  /\ IF Head(mq).id = removal.target
       THEN /\ mq' = Tail(mq)
            /\ removal' = [removal EXCEPT !.found = TRUE]
       ELSE /\ mq' = [mq EXCEPT ![1].redelivered = TRUE]
            /\ UNCHANGED removal
  /\ UNCHANGED <<openConnections, openChannels, listening, closePending,
                 created, faults, mdlq, sent, consumers, consumeCalls, nextTag>>
  /\ UNCHANGED <<ensured, closeCall>>
  /\ UNCHANGED <<serviceVars, callbackVars>>

\* await channel.consume(...) is over: the cancel timer is set, then
\* `if (!found) throw ... not found`, else return found
RemoveFromQueueReturns ==
  /\ removal.pc = "consuming"
  /\ removal' = [removal EXCEPT
       !.pc = IF removal.found THEN "returnedTrue" ELSE "threwNotFound",
       !.timer = "armed"]
  /\ UNCHANGED <<ensured, closeCall>>
  /\ UNCHANGED <<serviceVars, brokerVars, callbackVars>>

\* the setTimeout callback: this.channel.cancel(tempConsumerTag), where
\* tempConsumerTag is the reply object {consumerTag} of channel.consume and
\* not the tag: the call throws, the catch block logs the error, and the
\* consumer stays registered
CancelTimerRuns ==
  /\ removal.timer = "armed"
  /\ removal' = [removal EXCEPT !.timer = "ran"]
  /\ UNCHANGED <<ensured, closeCall>>
  /\ UNCHANGED <<serviceVars, brokerVars, callbackVars>>

NextRemove ==
  \/ ConnectCalled /\ UNCHANGED outsideService
  \/ AmqpConnectResolves /\ UNCHANGED outside
  \/ CreateChannelResolves /\ UNCHANGED outside
  \/ SetupQueuesResolves /\ UNCHANGED outside
  \/ (\E m \in Messages : enqueue(m)) /\ UNCHANGED outside
  \/ consume(DefaultOptions) /\ UNCHANGED outside
  \/ (\E k \in consumers : Deliver(k)) /\ UNCHANGED outside
  \/ (\E cb \in callbacks : HandlerResolves(cb)) /\ UNCHANGED outside
  \/ (\E messageId \in Messages : RemoveFromQueueConsumes(messageId))
       /\ UNCHANGED outsideService
  \/ TempConsumerGets /\ UNCHANGED outsideService
  \/ RemoveFromQueueReturns /\ UNCHANGED outsideService
  \/ CancelTimerRuns /\ UNCHANGED outsideService

SpecRemove == Init /\ [][NextRemove]_vars

\* ------------------------------------------------------------- properties

\* the submission / cancellation has written the credit account
ReqWrote(r) == req[r].pc \in {"reserved", "accepted202", "error"}
CanWrote(k) == can[k].pc \in {"refunded", "cancelled200"}

\* a cancellation of job j has written its refund
CancelWrote(j) == \E k \in Cancels : can[k].job = j /\ CanWrote(k)

\* the worker has settled job j
Settled(j) == generations[j].creditsUsed # 0

\* messages of job j at the broker or at the consumer
InQueue(j) == \E i \in 1..Len(queue) : queue[i].id = j
InDlq(j) == \E i \in 1..Len(dlq) : dlq[i].id = j
AtConsumer(j) == consumer.pc # "idle" /\ consumer.msg.id = j

RECURSIVE SumCost(_)
SumCost(S) ==
  IF S = {} THEN 0
  ELSE LET r == CHOOSE x \in S : TRUE IN req[r].cost + SumCost(S \ {r})

Accepted == {r \in Jobs : req[r].pc = "accepted202"}

\* C1: once a submission is answered 202, and nothing but that submission
\* has written the account since the submission read it, creditsRemaining
\* is the balance the submission found minus its estimatedCost.
C1_ReservationDeductsEstimate ==
  \A r \in Jobs :
    (req[r].pc = "accepted202" /\ ~touched[r] /\ ~CancelWrote(r) /\ ~Settled(r))
      => creditsRemaining = req[r].bal - req[r].cost

C1_Witness ==
  \E r \in Jobs :
    /\ req[r].pc = "accepted202" /\ ~touched[r] /\ ~CancelWrote(r) /\ ~Settled(r)
    /\ req[r].bal < InitialCredits

\* C2: balance check and decrement of concurrent submissions are one atomic
\* unit: when all submissions have been answered 202 or 402 and nothing else
\* has written the account, creditsRemaining is the initial balance minus the
\* estimatedCost of the accepted ones, and these never add up to more than
\* the initial balance.
C2_ConcurrentReservationsAtomic ==
  ( /\ \A r \in Jobs : req[r].pc \in {"idle", "accepted202", "rejected402"}
    /\ \A k \in Cancels : ~CanWrote(k)
    /\ \A j \in Jobs : ~Settled(j) )
  => /\ creditsRemaining = InitialCredits - SumCost(Accepted)
     /\ SumCost(Accepted) <= InitialCredits

\* C3: when publishing fails after the reservation, the submission is rolled
\* back before the error is surfaced: the balance is back at its value before
\* the submission and the job is not left queued.
C3_PublishFailureRollsBack ==
  \A r \in Jobs :
    (req[r].pc = "error" /\ ~touched[r] /\ ~CancelWrote(r))
      => /\ creditsRemaining = req[r].bal
         /\ generations[r].status # "queued"

\* C4: a submission whose estimatedCost exceeds the balance is answered 402
\* (and only such a submission is), and it leaves no generation, no content
\* item, no message and an unchanged balance.
C4_InsufficientCreditsLeavesNoTrace ==
  \A r \in Jobs :
    /\ req[r].pc = "rejected402" =>
         /\ req[r].cost > req[r].bal
         /\ generations[r].status = "none"
         /\ r \notin contentItems
         /\ ~InQueue(r) /\ ~InDlq(r) /\ ~AtConsumer(r)
         /\ (~touched[r] => creditsRemaining = req[r].bal)
    /\ req[r].pc \notin {"idle", "rejected402"} => req[r].cost <= req[r].bal

C4_Witness ==
  \E r \in Jobs :
    /\ req[r].pc = "rejected402" /\ ~touched[r]
    /\ \E q \in Jobs : req[q].pc = "accepted202"

\* C5: the reservation of a job is released once: with only the job's own
\* submission and its cancellations (looked up after the 202) writing the
\* account, the amount credited back never lifts creditsRemaining above the
\* balance from before the submission.
C5_ReservationReleasedOnce ==
  \A j \in Jobs :
    ( /\ req[j].pc = "accepted202" /\ ~touched[j] /\ ~Settled(j)
      /\ \A k \in Cancels : (can[k].job = j /\ CanWrote(k)) => can[k].afterAccept )
    => creditsRemaining <= req[j].bal

\* C6: cancelling a job that is still queued gives back the full
\* estimatedCredits: after the refund of a cancellation that found the
\* accepted job queued, with no other write to the account since the
\* submission read it, creditsRemaining is the balance from before the
\* submission.
C6_CancelRefundsInFull ==
  \A k \in Cancels :
    ( /\ CanWrote(k) /\ can[k].afterAccept
      /\ ~touched[can[k].job] /\ ~Settled(can[k].job)
      /\ \A k2 \in Cancels : (k2 # k /\ can[k2].job = can[k].job) => ~CanWrote(k2) )
    => creditsRemaining = req[can[k].job].bal

C6_Witness ==
  \E k \in Cancels :
    /\ CanWrote(k) /\ can[k].afterAccept
    /\ ~touched[can[k].job] /\ ~Settled(can[k].job)
    /\ \A k2 \in Cancels : (k2 # k /\ can[k2].job = can[k].job) => ~CanWrote(k2)
    /\ req[can[k].job].bal < InitialCredits

\* C7: a cancellation is answered 400 exactly when it finds the job in a
\* status other than queued, and answering 400 changes nothing but the
\* position of the call: generations, balance and queues stay as they are,
\* and the call takes no further step.
C7_NotCancellableChangesNothing ==
  [][\A k \in Cancels :
       /\ (can[k].pc = "idle" /\ can'[k].pc = "rejected400") =>
            /\ generations[can'[k].job].status \notin {"none", "queued"}
            /\ UNCHANGED <<generations, creditsRemaining, queue, dlq,
                           contentItems, consumer, tempConsumers>>
       /\ (can[k].pc = "idle" /\ can'[k].pc = "found") =>
            generations[can'[k].job].status = "queued"
       /\ can[k].pc = "rejected400" => can'[k] = can[k]]_vars

C7_Witness ==
  \E k \in Cancels :
    /\ can[k].pc = "rejected400"
    /\ generations[can[k].job].status = "processing"

\* C8: a job whose message lies in the dead-letter queue is not shown as
\* queued or processing, and its credits are not withheld: without other
\* writes to the account the balance is back at its value before submission.
C8_DeadLetteredJobIsClosed ==
  \A i \in 1..Len(dlq) :
    /\ generations[dlq[i].id].status \notin {"queued", "processing"}
    /\ (~touched[dlq[i].id] /\ ~CancelWrote(dlq[i].id)) =>
         creditsRemaining = req[dlq[i].id].bal

C10_RedeliveryOneTerminalTransition ==
  \A i \in 1..Len(dlq) :
    dlq[i].redelivered =>
      /\ generations[dlq[i].id].status \in {"completed", "failed"}
      /\ (~touched[dlq[i].id] /\ ~CancelWrote(dlq[i].id)) =>
           creditsRemaining \in
             {req[dlq[i].id].bal,
              req[dlq[i].id].bal - generations[dlq[i].id].creditsUsed}

\* the product of the multipliers estimateGenerationCost applies, in
\* thousandths per word
Rate == TypeMultiplier(contentType) * ModelMultiplier(promptData.model)
          * SeoMultiplier(promptData.seoOptimize)

\* c is max(100, ceil(thousandths / 1000))
FlooredCeiling(c, thousandths) ==
  /\ c >= 100
  /\ c * 1000 >= thousandths
  /\ c > 100 => (c - 1) * 1000 < thousandths

\* C19 (as written): the returned cost is max(100, ceil(wordCount * type *
\* model * seo)), with 1000 words when wordCount is missing; it does not
\* decrease when wordCount grows by one; a blog of 1000 words, no SEO,
\* default model costs 1000.
C19_CostIsFlooredCeilingOfWordCount ==
  returnedCost # 0 =>
    /\ FlooredCeiling(returnedCost,
         (IF promptData.hasWordCount THEN promptData.wordCount
          ELSE 1000) * Rate)
    /\ (promptData.hasWordCount /\ promptData.wordCount >= 1) =>
         estimateGenerationCost(
           [promptData EXCEPT !.wordCount = @ - 1], contentType) <= returnedCost
    /\ ( /\ promptData.hasWordCount /\ promptData.wordCount = 1000
         /\ contentType = "blog" /\ ~promptData.seoOptimize
         /\ promptData.model = "default" ) => returnedCost = 1000

\* C19 (amended): the same with a wordCount of 0 counted as missing: the
\* returned cost is max(100, ceil(w * type * model * seo)) where w is
\* wordCount when it is given and not 0, and 1000 otherwise; it does not
\* decrease when a wordCount of at least 1 grows by one.
C19_CostIsFlooredCeilingOfRequestedWords ==
  returnedCost # 0 =>
    /\ FlooredCeiling(returnedCost,
         (IF promptData.hasWordCount /\ promptData.wordCount > 0
            THEN promptData.wordCount ELSE 1000) * Rate)
    /\ (promptData.hasWordCount /\ promptData.wordCount >= 2) =>
         estimateGenerationCost(
           [promptData EXCEPT !.wordCount = @ - 1], contentType) <= returnedCost
    /\ ( /\ promptData.hasWordCount /\ promptData.wordCount = 1000
         /\ contentType = "blog" /\ ~promptData.seoOptimize
         /\ promptData.model = "default" ) => returnedCost = 1000

\* 333 words of product copy (0.8) on gpt-4 (1.5) with SEO (1.2): 479.52
C19_Witness ==
  /\ promptData.hasWordCount /\ promptData.wordCount = 333
  /\ contentType = "product" /\ promptData.model = "gpt-4"
  /\ promptData.seoOptimize
  /\ returnedCost = 480

\* C16: a deductCredits call that finds creditsRemaining >= c takes exactly c
\* off creditsRemaining, puts exactly c on creditsUsed and saves once, so
\* that with no other write between its load and its save the row moves by
\* c and creditsRemaining + creditsUsed stays; a call that finds
\* creditsRemaining < c fails, saves nothing, changes nothing and takes no
\* further step.
C16_DeductMovesExactAmount ==
  [][\A p \in ServiceCalls :
       /\ (svc[p].pc = "idle" /\ svc'[p].op = "deductCredits") =>
            /\ svc'[p].pc = "insufficient" <=> creditsRemaining < svc'[p].credits
            /\ svc'[p].pc = "loaded" <=> creditsRemaining >= svc'[p].credits
            /\ svc'[p].saves = 0
            /\ UNCHANGED <<creditsRemaining, creditsUsed>>
       /\ (svc[p].op = "deductCredits" /\ svc[p].pc = "loaded"
             /\ svc'[p].pc = "done"
             /\ creditsRemaining = svc[p].rem /\ creditsUsed = svc[p].used) =>
            /\ creditsRemaining' = creditsRemaining - svc[p].credits
            /\ creditsUsed' = creditsUsed + svc[p].credits
            /\ creditsRemaining' + creditsUsed' = creditsRemaining + creditsUsed
            /\ svc'[p].saves = 1
       /\ (svc[p].op = "deductCredits" /\ svc[p].pc \in {"insufficient", "done"})
            => svc'[p] = svc[p]]_vars

C16_Witness ==
  \E p, q \in ServiceCalls :
    /\ svc[p].op = "deductCredits" /\ svc[p].pc = "done"
    /\ svc[p].credits > 0 /\ creditsUsed = svc[p].credits
    /\ svc[q].op = "deductCredits" /\ svc[q].pc = "insufficient"

\* C17: whatever the interleaving of submissions, cancellations,
\* deductCredits and addCredits calls with amounts >= 0, creditsRemaining
\* is never negative.
C17_BalanceNeverNegative == creditsRemaining >= 0

C17_Witness ==
  /\ \E r \in Jobs : req[r].pc = "accepted202"
  /\ \E r \in Jobs : req[r].pc = "rejected402"
  /\ \E k \in Cancels : CanWrote(k)
  /\ \E p \in ServiceCalls : svc[p].op = "deductCredits" /\ svc[p].pc = "done"
  /\ \E p \in ServiceCalls : svc[p].op = "addCredits" /\ svc[p].pc = "done"

\* a cancellation of job j has been answered 200
CancelSucceeded(j) ==
  \E k \in Cancels : can[k].job = j /\ can[k].pc = "cancelled200"

C11_DeadLetteredOnThirdAttempt ==
  \A o \in outcomes :
    (o.result = "deadLettered" /\ o.limit = maxRetries /\ faults = 0) =>
      /\ o.retryCount + 1 = 3
      /\ invocations[o.id] = 3

\* C11 (amended): with the default limit of 3 and no redelivery, a message
\* whose handler fails on every delivery is republished after its 1st, 2nd
\* and 3rd delivery and dead-lettered on its 4th, after exactly 4 handler
\* invocations; it is never delivered a 5th time.
C11_DeadLetteredOnFourthAttempt ==
  /\ \A o \in outcomes :
       (o.limit = maxRetries /\ faults = 0) =>
         /\ o.result = "retried" => o.retryCount + 1 \in 1..3
         /\ o.result = "deadLettered" =>
              /\ o.retryCount + 1 = 4
              /\ invocations[o.id] = 4
  /\ faults = 0 => \A m \in Messages : invocations[m] <= 4

C11_Witness ==
  \E o \in outcomes :
    /\ o.result = "deadLettered" /\ o.limit = maxRetries /\ faults = 0
    /\ invocations[o.id] = 4

\* C12: a failure of the permanent kind dead-letters the message at once:
\* no retry timer is ever armed for it and it is never republished.
C12_PermanentFailureNotRetried ==
  \A cb \in callbacks : cb.pc = "timer" => cb.error # "permanent"

\* C13: the failure handling of every delivery ends with the message either
\* republished with its retry count incremented or moved to the dead-letter
\* queue, also when the channel is lost while the retry timer is pending.
C13_FailedMessageRepublishedOrDeadLettered ==
  \A o \in outcomes : o.result \in {"acked", "retried", "deadLettered"}

\* C15: no exception escapes the consume callback or its retry timer
\* callback: no promise of theirs is rejected with nothing to catch it.
C15_NoUnhandledRejection == ~unhandledRejection

\* Math.min(a, b)
MathMin(a, b) == IF a <= b THEN a ELSE b

\* C20 (as written): the delay of the retry after failed attempt n is
\* min(base * 2^(n-1), 30 s), base being the configured retry delay (5 s by
\* default): it never exceeds 30 s, whatever maxRetries and retryDelay are.
C20_RetryDelayCapped ==
  \A cb \in callbacks :
    cb.pc = "timer" =>
      /\ cb.delay = MathMin(RetryBase(cb.options) * Pow2(cb.msg.retryCount),
                            30000)
      /\ cb.delay <= 30000

\* C20 (amended): the delay of the retry after failed attempt n is
\* base * 2^(n-1) with no cap, base being options.retryDelay or 5 s: it
\* doubles from one attempt to the next, and with the default options
\* (3 retries from 5 s) it is 5, 10, 20 s, which is min(5 s * 2^(n-1), 30 s).
C20_RetryDelayDoubles ==
  \A cb \in callbacks :
    cb.pc = "timer" =>
      LET n == cb.msg.retryCount + 1
          base == IF cb.options.retryDelay = 0 THEN 5000
                  ELSE cb.options.retryDelay
      IN /\ n <= RetryLimit(cb.options)
         /\ cb.delay = base * 2 ^ (n - 1)
         /\ n >= 2 => cb.delay = 2 * (base * 2 ^ (n - 2))
         /\ cb.options = [maxRetries |-> 0, retryDelay |-> 0] =>
              /\ cb.delay \in {5000, 10000, 20000}
              /\ cb.delay = MathMin(5000 * 2 ^ (n - 1), 30000)

C20_Witness ==
  \E cb \in callbacks :
    /\ cb.pc = "timer" /\ cb.msg.retryCount = 2
    /\ cb.options = [maxRetries |-> 0, retryDelay |-> 0]
    /\ cb.delay = 20000

\* a step in which handleConnectionError() runs: a connect() call ends
\* without success, a connection breaks, or a 'close' event is handled
HandlesConnectionError ==
  \/ connectCall.pc # "none" /\ connectCall'.pc = "none" /\ ~connected'
  \/ faults' # faults
  \/ closePending' # closePending

\* C18: reconnectAttempts never exceeds maxReconnectAttempts (10); at most
\* one reconnect timer is armed; a connect that succeeds sets
\* reconnectAttempts to 0; below the limit a connection error counts one
\* attempt and leaves exactly one timer armed; at the limit it emits
\* 'reconnect_failed' and leaves no timer armed.
C18_ReconnectBacksOffAndGivesUp ==
  [][/\ reconnectAttempts' <= maxReconnectAttempts
     /\ reconnectTimeout' <= 1
     /\ (~connected /\ connected') => reconnectAttempts' = 0
     /\ (HandlesConnectionError /\ reconnectAttempts < maxReconnectAttempts) =>
          /\ reconnectAttempts' = reconnectAttempts + 1
          /\ reconnectTimeout' = 1
     /\ (HandlesConnectionError /\ reconnectAttempts = maxReconnectAttempts) =>
          /\ emitted' = "reconnect_failed"
          /\ reconnectTimeout' = 0
          /\ reconnectAttempts' = maxReconnectAttempts]_vars

C18_Witness ==
  /\ reconnectAttempts = maxReconnectAttempts
  /\ emitted = "reconnect_failed"
  /\ reconnectTimeout = 0
  /\ ~connected /\ ~connecting
  /\ created > 0

\* C24: a cancellation never credits more than was reserved: after the
\* refund of the only cancellation of a job, with no write to the account by
\* an operation of another job, creditsRemaining is not above the balance
\* the job's submission found, also when the submission has written the
\* queued row and not (yet) saved the decremented balance.
C24_CancelNeverCreditsUnreserved ==
  \A k \in Cancels :
    ( /\ CanWrote(k)
      /\ ~touched[can[k].job] /\ ~Settled(can[k].job)
      /\ \A k2 \in Cancels : (k2 # k /\ can[k2].job = can[k].job) => ~CanWrote(k2) )
    => creditsRemaining <= req[can[k].job].bal

\* the final values of ContentGeneration.status
Terminal(status) == status \in {"completed", "failed"}

\* the place of a status on the way none, queued, processing, final
StatusRank(status) ==
  CASE status = "none" -> 0
    [] status = "queued" -> 1
    [] status = "processing" -> 2
    [] OTHER -> 3

\* C23: the status of a job only moves forward, a job in a final status
\* keeps it whatever operation runs, and a cancellation records a status
\* other than the one of a failed job.
C23_StatusOnlyMovesForward ==
  [][\A j \in Jobs :
       /\ StatusRank(generations'[j].status) >= StatusRank(generations[j].status)
       /\ Terminal(generations[j].status) =>
            generations'[j].status = generations[j].status
       /\ \A k \in Cancels :
            (can[k].pc = "found" /\ can'[k].pc = "marked" /\ can[k].job = j) =>
              generations'[j].status # "failed"]_vars

\* C21: the attempt counter lives in the message header and a delivery that
\* is redelivered after a connection loss still counts: whatever the
\* restarts, the handler is not invoked for one message more often than the
\* retry limit allows (the first delivery and `limit` retries).
C21_InvocationsBoundedAcrossRedelivery ==
  \A cb \in callbacks :
    /\ cb.msg.retryCount <= RetryLimit(cb.options)
    /\ invocations[cb.msg.id] <= RetryLimit(cb.options) + 1

\* C22: at most `prefetch` deliveries of a consumer are unacknowledged, and
\* a message waiting out its retry delay does not keep the consumer from
\* being handed the next message of the queue.
C22_BackoffLeavesConsumerFree ==
  \A k \in consumers :
    /\ Cardinality(UnackedOn(callbacks, k.chan)) <= prefetch
    /\ ( /\ k.chan \in openChannels
         /\ mq # <<>>
         /\ \E cb \in callbacks : cb.chan = k.chan /\ cb.pc = "timer" )
       => ENABLED Deliver(k)

\* C26: when the service is connected again after a connection loss, the
\* consumer registered with consume() before the loss is registered on the
\* channel the service now holds.
C26_ConsumerBackAfterReconnect ==
  (connected /\ channel \in openChannels /\ faults > 0
     /\ consumeCalls = MaxConsumeCalls /\ created > 1)
    => \E k \in consumers : k.chan = channel

\* C27: the queue never holds two messages for the same id.
C27_NoDuplicateInQueue ==
  \A i, j \in 1..Len(mq) : i # j => mq[i].id # mq[j].id

\* C25: whenever ensureConnection() returns without throwing, the service
\* is connected and holds a channel, also when a connect() was in progress
\* at the time of the call.
C25_EnsuredMeansConnected ==
  ensured.resolved => (ensured.connected /\ ensured.channel)

\* C30: once close() has completed, and until connect() is called again,
\* the service is not connected, holds neither channel nor connection, has
\* no reconnect timer armed and is not connecting.
C30_CloseIsFinal ==
  closeCall.pc = "closed" =>
    /\ ~connected
    /\ channel = 0
    /\ connection = 0
    /\ reconnectTimeout = 0

\* C28: a removeFromQueue call that threw 'not found' has not removed the
\* message, and its temporary consumer does not remove it afterwards; a
\* call that returned true has acknowledged the message.
C28_NotFoundMeansNotRemoved ==
  /\ removal.pc = "threwNotFound" => ~removal.found
  /\ removal.pc = "returnedTrue" => removal.found

\* C29: once the cancel timer of removeFromQueue has run, the temporary
\* consumer is no longer registered on an open channel; and the temporary
\* consumer takes no message other than its target out of the queue.
C29_TempConsumerCancelledByTimer ==
  /\ removal.timer = "ran" => removal.chan \notin openChannels
  /\ \A m \in Messages :
       (m # removal.target /\ m <= sent) =>
          \/ \E i \in 1..Len(mq) : mq[i].id = m
          \/ \E cb \in callbacks : cb.msg.id = m
          \/ \E o \in outcomes : o.id = m
====
